---------------------------- MODULE Spec2Model ----------------------------
(***************************************************************************)
(* The asynchronous PDF -> dialogue -> audio pipeline of PDF2Audio-pro.    *)
(*                                                                         *)
(*   app/main.py              pdf_to_dialogue, get_task_status             *)
(*   tasks/generate_tasks.py  validate_and_generate_audio_task             *)
(*   utils/audio_utils.py     generate_audio                               *)
(*   utils/s3_utils.py        upload_to_s3, generate_presigned_url         *)
(*   utils/supabase_utils.py  insert_supabase_record                       *)
(*                                                                         *)
(* A job is a message on the broker; an execution is one run of the task   *)
(* body by a worker.  The broker delivers at least once, so one job may    *)
(* have several executions.  The result store is keyed by job id.          *)
(***************************************************************************)
EXTENDS Integers, Sequences, FiniteSets, TLC

\* ------------------------------------------------------------------ bounds
MaxJobs == 2
MaxExec == 2
MaxDocs == 1
MaxLines == 2
MaxAttempts == 3
MaxTime == 1
MaxOld == 1
MaxText == 2

\* os.cpu_count() of the worker host; ThreadPoolExecutor() sizes itself on it.
cpu_count == 1

JobIds == 1..MaxJobs
Execs == 1..MaxExec

\* ------------------------------------------------------------ Python values
\* An optional value is a sequence of length at most one: None is <<>>.
None == <<>>
Some(v) == <<v>>
IsNone(o) == o = <<>>
Val(o) == o[1]

\* The three ways generate_audio's edited_transcript / user_feedback can be
\* bound: not supplied (the default None), the empty string, a non-empty one.
ABSENT == "ABSENT"
EMPTY == "EMPTY"
TEXT == "TEXT"
ArgDomain == {ABSENT, EMPTY, TEXT}

\* time.time() - os.path.getmtime(file) > 24 * 60 * 60
StaleAfter == 24 * 60 * 60

\* str(e) of the exceptions the pipeline can raise.
MsgNoFiles == "Please upload at least one PDF file before generating audio."
MsgApiKey == "OpenAI API key is required"
MsgExtract == "Error extracting text from PDF: <cause>"
MsgTypeError == "can only concatenate str (not \"NoneType\") to str"
MsgValidation == "<n> validation errors for Dialogue"
MsgLLM == "<model call error>"
MsgSynth == "<speech call error>"
MsgWrite == "[Errno 28] No space left on device"
MsgSweep == "[Errno 2] No such file or directory: <scratch file>"
MsgUpload == "Failed to upload to S3: <cause>"
MsgPresign == "<presign error other than ClientError>"
MsgInsert == "Failed to insert into Supabase: <cause>"

\* ------------------------------------------------------------------- state
VARIABLES
    msg,        \* broker: job id -> the task message, or NoMsg
    backend,    \* Celery result store: job id -> stored task meta
    now,        \* wall clock, seconds
    scratch,    \* tempfile.gettempdir(): the *.mp3 files, [name, mtime]
    s3,         \* object keys uploaded to the bucket
    library,    \* rows of the Supabase table, by s3_object_key
    ex          \* the executions: locals of the task body and generate_audio

vars == <<msg, backend, now, scratch, s3, library, ex>>

NoMsg == [sent |-> FALSE, nfiles |-> 0, et |-> ABSENT, uf |-> ABSENT, endpoint |-> FALSE]

\* What the result store holds for a task id it has no key for: Celery's
\* AsyncResult reports state PENDING and info None for it.
NoRecord == [status |-> "PENDING", start_time |-> None, result |-> None]

\* The dict a task run returns.  keys are the keys the dict has; a field whose
\* key is missing reads None here.
ResultDict(keys, url, transcript, text, error) ==
    [keys |-> keys, presigned_url |-> url, transcript |-> transcript,
     original_text |-> text, error |-> error]

AllKeys == {"presigned_url", "transcript", "original_text", "error"}

Idle ==
    [pc |-> "idle", job |-> 0, seen |-> FALSE, presigned_url |-> None,
     idx |-> 0, attempts |-> 0, verr |-> 0, prompts |-> {}, dialogue |-> <<>>,
     fut |-> <<>>, order |-> <<>>, k |-> 0, audio |-> <<>>, transcript |-> <<>>,
     tmp |-> None, todo |-> {}, cur |-> 0, ret |-> None, cause |-> "none"]

OldNames == {10 + i : i \in 1..MaxOld}
OldFiles == [name : OldNames, mtime : {0 - StaleAfter - 1, 0 - StaleAfter}]

Init ==
    /\ msg = [j \in JobIds |-> NoMsg]
    /\ backend = [j \in JobIds |-> NoRecord]
    /\ now = 0
    /\ scratch \in {S \in SUBSET OldFiles :
                      \A f, g \in S : f.name = g.name => f = g}
    /\ s3 = {}
    /\ library = {}
    /\ ex = [e \in Execs |-> Idle]

\* ------------------------------------------------------------- submission
\* POST /pdf-to-dialogue/: apply_async(args=[request.files]).  Nothing but the
\* file list is passed, so generate_audio runs with its defaults.
pdf_to_dialogue(j, n) ==
    /\ ~msg[j].sent
    /\ msg' = [msg EXCEPT ![j] =
                 [sent |-> TRUE, nfiles |-> n, et |-> ABSENT, uf |-> ABSENT,
                  endpoint |-> TRUE]]
    /\ UNCHANGED <<backend, now, scratch, s3, library, ex>>

\* A job whose generate_audio call has edited_transcript and user_feedback
\* bound to strings, as the function's signature allows (app/tasks.py forwards
\* *args to it positionally).  The call at generate_tasks.py:66-74 cannot bind
\* them (a seventh positional argument collides with intro_instructions=), so
\* this action widens what that task can be sent: it is what lets the stages
\* after prompt assembly run at all.
apply_async(j, n, et, uf) ==
    /\ ~msg[j].sent
    /\ et # ABSENT \/ uf # ABSENT
    /\ msg' = [msg EXCEPT ![j] =
                 [sent |-> TRUE, nfiles |-> n, et |-> et, uf |-> uf,
                  endpoint |-> FALSE]]
    /\ UNCHANGED <<backend, now, scratch, s3, library, ex>>

\* The broker hands the job's message to a worker (at least once); the
\* executions are numbered in the order they begin.
Deliver(e, j) ==
    /\ ex[e].pc = "idle"
    /\ \A e2 \in Execs : e2 < e => ex[e2].pc # "idle"
    /\ msg[j].sent
    /\ ex' = [ex EXCEPT ![e].pc = "update_state", ![e].job = j]
    /\ UNCHANGED <<msg, backend, now, scratch, s3, library>>

Tick ==
    /\ now < MaxTime
    /\ now' = now + 1
    /\ UNCHANGED <<msg, backend, scratch, s3, library, ex>>


\* ------------------------------------------------------------ result store
\* The state Celery stores when update_state is called without state=.
NoState == "None"

Job(e) == ex[e].job

\* except Exception as e: return {"presigned_url": presigned_url,
\*   "transcript": None, "original_text": None, "error": str(e)}
ErrorResult(e, text) == ResultDict(AllKeys, ex[e].presigned_url, None, None, Some(text))

\* A run past generate_audio and the publish calls: only what the task
\* returns is left of its locals.  cause remembers what ended the run.
Returning(e, result, cause) ==
    [ex EXCEPT ![e] = [Idle EXCEPT !.pc = "mark_as_done", !.job = Job(e),
                                   !.ret = Some(result), !.cause = cause]]

\* An exception raised inside the try block of the task: control goes to the
\* except clause, whose dict is what the task returns.
Raise(e, text, stage) == Returning(e, ErrorResult(e, text), stage)

\* backend.store_result, first half: the stored meta is read back, and a task
\* already in state SUCCESS is left as it is.
StoreRead(e, next) ==
    /\ ex' = [ex EXCEPT ![e].pc = next,
                        ![e].seen = (backend[Job(e)].status = "SUCCESS")]
    /\ UNCHANGED <<msg, backend, now, scratch, s3, library>>

\* backend.store_result, second half: the key is set to the new meta.
StoreWrite(e, meta, next) ==
    /\ backend' = IF ex[e].seen THEN backend
                  ELSE [backend EXCEPT ![Job(e)] = meta]
    /\ ex' = [ex EXCEPT ![e].pc = next, ![e].seen = FALSE]
    /\ UNCHANGED <<msg, now, scratch, s3, library>>

\* -------------------------------------------- validate_and_generate_audio_task
\* self.update_state(meta={'start_time': ...}): no state is named.
StartMeta == [status |-> NoState, start_time |-> Some(now), result |-> None]

UpdateStateRead(e) ==
    /\ ex[e].pc = "update_state"
    /\ StoreRead(e, "update_state_set")

UpdateStateWrite(e) ==
    /\ ex[e].pc = "update_state_set"
    /\ StoreWrite(e, StartMeta, "check_files")

\* The check of the file list removed: the task goes on to generate_audio.
CheckFilesSkipped(e) ==
    /\ ex[e].pc = "check_files"
    /\ ex' = [ex EXCEPT ![e].pc = "api_key", ![e].presigned_url = None]
    /\ UNCHANGED <<msg, backend, now, scratch, s3, library>>

\* if not files: return {"error": ...}; otherwise presigned_url = None and
\* the try block is entered.
CheckFiles(e) ==
    /\ ex[e].pc = "check_files"
    /\ ex' = IF msg[Job(e)].nfiles = 0
             THEN Returning(e, ResultDict({"error"}, None, None, None,
                                          Some(MsgNoFiles)), "nofiles")
             ELSE [ex EXCEPT ![e].pc = "api_key", ![e].presigned_url = None]
    /\ UNCHANGED <<msg, backend, now, scratch, s3, library>>

\* The task returned: Celery stores the returned dict under state SUCCESS.
DoneMeta(e) == [status |-> "SUCCESS", start_time |-> None, result |-> ex[e].ret]

MarkAsDoneRead(e) ==
    /\ ex[e].pc = "mark_as_done"
    /\ StoreRead(e, "mark_as_done_set")

MarkAsDoneWrite(e) ==
    /\ ex[e].pc = "mark_as_done_set"
    /\ StoreWrite(e, DoneMeta(e), "done")

\* ------------------------------------------------------------ generate_audio
\* if not os.getenv("OPENAI_API_KEY") and not openai_api_key: raise ValueError
ApiKey(e, present) ==
    /\ ex[e].pc = "api_key"
    /\ ex' = IF present
             THEN [ex EXCEPT ![e].pc = "extract", ![e].idx = 0]
             ELSE Raise(e, MsgApiKey, "api_key")
    /\ UNCHANGED <<msg, backend, now, scratch, s3, library>>

\* The except clause without its raise: the error is logged and the loop
\* goes on to the next file.
ExtractLogsAndContinues(e, readable) ==
    /\ ex[e].pc = "extract"
    /\ ex' = IF ex[e].idx = msg[Job(e)].nfiles
             THEN [ex EXCEPT ![e].pc = "prompt"]
             ELSE IF readable
                  THEN [ex EXCEPT ![e].idx = @ + 1]
                  ELSE [ex EXCEPT ![e].idx = @ + 1, ![e].cause = "extract"]
    /\ UNCHANGED <<msg, backend, now, scratch, s3, library>>

\* for file in files: read the PDF and append its text; a file that cannot be
\* read raises ValueError at once.
Extract(e, readable) ==
    /\ ex[e].pc = "extract"
    /\ ex' = IF ex[e].idx = msg[Job(e)].nfiles
             THEN [ex EXCEPT ![e].pc = "prompt"]
             ELSE IF readable
                  THEN [ex EXCEPT ![e].idx = @ + 1]
                  ELSE Raise(e, MsgExtract, "extract")
    /\ UNCHANGED <<msg, backend, now, scratch, s3, library>>

\* "..." + edited_transcript + "..." if edited_transcript != "" else "":
\* the conditional binds last, so None != "" selects the concatenation, and
\* str + None raises TypeError.
ConcatRaises(arg) == arg = ABSENT

\* edited_transcript_processed.strip() != '' or user_feedback_processed.strip() != ''
Improvements(et, uf) == et # EMPTY \/ uf # EMPTY

PromptOf(e) ==
    [docs |-> ex[e].idx,
     requested_improvements |-> Improvements(msg[Job(e)].et, msg[Job(e)].uf)]

PromptAssembly(e) ==
    /\ ex[e].pc = "prompt"
    /\ ex' = IF ConcatRaises(msg[Job(e)].et) \/ ConcatRaises(msg[Job(e)].uf)
             THEN Raise(e, MsgTypeError, "prompt")
             ELSE [ex EXCEPT ![e].pc = "llm"]
    /\ UNCHANGED <<msg, backend, now, scratch, s3, library>>

\* ------------------------------------------------------- dialogue generation
Speakers == {"speaker-1", "speaker-2"}
Alphabet == <<"a", "b", "c", "d", "e", "f", "g", "h">>

\* A DialogueItem: speaker is one of the two literals, text any str (a
\* sequence of characters).  Line i of a generated dialogue says Alphabet[i].
Lines(spk) == [i \in DOMAIN spk |-> [speaker |-> spk[i], text |-> <<Alphabet[i]>>]]
Dialogues == {Lines(spk) : spk \in UNION {[1..n -> Speakers] : n \in 0..MaxLines}}

\* One call of generate_dialogue under @retry(retry=retry_if_exception_type(
\* ValidationError)): a valid Dialogue is returned, a ValidationError makes
\* tenacity call again with the same arguments (no stop, no wait), any other
\* exception propagates.
LLMValid(e, d) ==
    /\ ex[e].pc = "llm"
    /\ ex' = [ex EXCEPT ![e].pc = "submit", ![e].dialogue = d,
                        ![e].attempts = @ + 1,
                        ![e].prompts = @ \cup {PromptOf(e)}]
    /\ UNCHANGED <<msg, backend, now, scratch, s3, library>>

\* Without @retry the ValidationError would reach the task.
LLMValidationErrorSurfaced(e) ==
    /\ ex[e].pc = "llm"
    /\ ex' = Raise(e, MsgValidation, "llm")
    /\ UNCHANGED <<msg, backend, now, scratch, s3, library>>

LLMValidationError(e) ==
    /\ ex[e].pc = "llm"
    /\ ex[e].attempts + 1 < MaxAttempts
    /\ ex' = [ex EXCEPT ![e].attempts = @ + 1, ![e].verr = @ + 1,
                        ![e].prompts = @ \cup {PromptOf(e)}]
    /\ UNCHANGED <<msg, backend, now, scratch, s3, library>>

\* With a bare @retry every exception would make tenacity call again.
LLMOtherErrorRetried(e) ==
    /\ ex[e].pc = "llm"
    /\ ex[e].attempts + 1 < MaxAttempts
    /\ ex' = [ex EXCEPT ![e].attempts = @ + 1,
                        ![e].prompts = @ \cup {PromptOf(e)}]
    /\ UNCHANGED <<msg, backend, now, scratch, s3, library>>

LLMOtherError(e) ==
    /\ ex[e].pc = "llm"
    /\ ex' = [Raise(e, MsgLLM, "llm") EXCEPT ![e].attempts = ex[e].attempts + 1,
                                             ![e].verr = ex[e].verr]
    /\ UNCHANGED <<msg, backend, now, scratch, s3, library>>

\* ------------------------------------------------------------------ synthesis
\* voice = speaker_1_voice if line.speaker == "speaker-1" else speaker_2_voice
Voice(speaker) == IF speaker = "speaker-1" THEN "alloy" ELSE "echo"

\* transcript_line = f"{line.speaker}: {line.text}"
TranscriptLine(line) == <<line.speaker, ":", " ">> \o line.text

\* get_mp3(text, voice, audio_model, api_key): the bytes of one line's speech.
get_mp3(text, voice) == [text |-> text, voice |-> voice]

\* ThreadPoolExecutor(): max_workers = min(32, (os.cpu_count() or 1) + 4)
max_workers == IF cpu_count + 4 < 32 THEN cpu_count + 4 ELSE 32

\* with ThreadPoolExecutor() as executor: one submit per line; futures keeps
\* (future, transcript_line) in submission order.
Submit(e) ==
    /\ ex[e].pc = "submit"
    /\ ex' = [ex EXCEPT ![e].pc = "collect",
                        ![e].fut = [i \in DOMAIN ex[e].dialogue |->
                                      [text |-> ex[e].dialogue[i].text,
                                       voice |-> Voice(ex[e].dialogue[i].speaker),
                                       line |-> TranscriptLine(ex[e].dialogue[i]),
                                       st |-> "queued"]],
                        ![e].k = 0, ![e].audio = <<>>, ![e].transcript = <<>>,
                        ![e].attempts = 0, ![e].verr = 0, ![e].prompts = {}]
    /\ UNCHANGED <<msg, backend, now, scratch, s3, library>>

Running(e) == {i \in DOMAIN ex[e].fut : ex[e].fut[i].st = "running"}
Queued(e) == {i \in DOMAIN ex[e].fut : ex[e].fut[i].st = "queued"}
Pending(e) == Running(e) \cup Queued(e)

\* A pool whose threads never take a queued work item.
FutureStartNever(e, i) ==
    /\ FALSE
    /\ UNCHANGED vars

\* A pool thread takes the oldest queued work item; at most max_workers
\* threads exist.
FutureStart(e, i) ==
    /\ ex[e].pc \in {"collect", "shutdown"}
    /\ i \in Queued(e)
    /\ \A q \in Queued(e) : i <= q
    /\ Cardinality(Running(e)) < max_workers
    /\ ex' = [ex EXCEPT ![e].fut[i].st = "running"]
    /\ UNCHANGED <<msg, backend, now, scratch, s3, library>>

\* The speech call of a running work item returns, or raises.  order lists
\* the work items in the order they ended.
FutureFinish(e, i, ok) ==
    /\ ex[e].pc \in {"collect", "shutdown"}
    /\ i \in Running(e)
    /\ ex' = [ex EXCEPT ![e].fut[i].st = IF ok THEN "ok" ELSE "err",
                        ![e].order = Append(@, i)]
    /\ UNCHANGED <<msg, backend, now, scratch, s3, library>>

\* Walking the futures as they complete (concurrent.futures.as_completed).
NextFutureAsCompleted(e) ==
    IF ex[e].k < Len(ex[e].order) THEN ex[e].order[ex[e].k + 1] ELSE ex[e].k + 1

\* The index of the future whose result() the main thread takes next: the
\* futures list is walked in submission order.
NextFuture(e) == ex[e].k + 1

\* A failed line's exception swallowed.
ResultRaisesNever(f) == FALSE

\* future.result() re-raises what the speech call raised.
ResultRaises(f) == f.st = "err"

\* for future, transcript_line in futures: audio += future.result();
\* transcript += transcript_line + "\n\n".  result() blocks until that future
\* is done and re-raises its exception.  Leaving the with block, normally or
\* by an exception, is executor.shutdown(wait=True).
Collect(e) ==
    /\ ex[e].pc = "collect"
    /\ IF ex[e].k = Len(ex[e].fut)
       THEN ex' = [ex EXCEPT ![e].pc = "write"]
       ELSE LET f == ex[e].fut[NextFuture(e)] IN
            /\ f.st \in {"ok", "err"}
            /\ ex' = IF ResultRaises(f)
                     THEN [ex EXCEPT ![e].pc = "shutdown"]
                     ELSE [ex EXCEPT ![e].k = @ + 1,
                                     ![e].audio = Append(@, get_mp3(f.text, f.voice)),
                                     ![e].transcript = @ \o f.line \o <<"\n", "\n">>]
    /\ UNCHANGED <<msg, backend, now, scratch, s3, library>>

\* executor.shutdown(wait=False): the exception leaves the stage at once.
ShutdownNoWait(e) ==
    /\ ex[e].pc = "shutdown"
    /\ ex' = Raise(e, MsgSynth, "synthesis")
    /\ UNCHANGED <<msg, backend, now, scratch, s3, library>>

\* shutdown(wait=True) on the way out with the exception: every work item
\* still pending runs to its end, then the exception reaches the task.
Shutdown(e) ==
    /\ ex[e].pc = "shutdown"
    /\ Pending(e) = {}
    /\ ex' = Raise(e, MsgSynth, "synthesis")
    /\ UNCHANGED <<msg, backend, now, scratch, s3, library>>

\* ------------------------------------------------------------------- assembly
Names(files) == {f.name : f \in files}
FileNamed(n) == CHOOSE f \in scratch : f.name = n

\* NamedTemporaryFile(dir=..., delete=False, suffix=".mp3"); write; close.
\* The file gets a name no other file has; an OSError propagates.  From here
\* on generate_audio uses the file's name, transcript and combined_text only.
WriteScratch(e, ok) ==
    /\ ex[e].pc = "write"
    /\ IF ok
       THEN /\ scratch' = scratch \cup {[name |-> e, mtime |-> now]}
            /\ ex' = [ex EXCEPT ![e].pc = "glob", ![e].tmp = Some(e),
                                ![e].dialogue = <<>>, ![e].fut = <<>>,
                                ![e].order = <<>>, ![e].k = 0, ![e].audio = <<>>]
       ELSE /\ scratch' = scratch
            /\ ex' = Raise(e, MsgWrite, "assembly")
    /\ UNCHANGED <<msg, backend, now, s3, library>>

\* glob.glob(f"{temporary_directory}/*.mp3"): the names present at this moment.
Glob(e) ==
    /\ ex[e].pc = "glob"
    /\ ex' = [ex EXCEPT ![e].pc = "sweep", ![e].todo = Names(scratch)]
    /\ UNCHANGED <<msg, backend, now, scratch, s3, library>>

\* A sweep that takes a file of exactly 24 hours for stale.
StaleAtLeast(f) == now - f.mtime >= StaleAfter

\* if os.path.isfile(file) and time.time() - os.path.getmtime(file) > 24*60*60
Stale(f) == now - f.mtime > StaleAfter

SweepCheck(e, n) ==
    /\ ex[e].pc = "sweep"
    /\ n \in ex[e].todo
    /\ ex' = IF n \in Names(scratch) /\ Stale(FileNamed(n))
             THEN [ex EXCEPT ![e].pc = "remove", ![e].cur = n]
             ELSE [ex EXCEPT ![e].todo = @ \ {n}]
    /\ UNCHANGED <<msg, backend, now, scratch, s3, library>>

\* os.remove(file): FileNotFoundError when the file is gone by now.
SweepRemove(e) ==
    /\ ex[e].pc = "remove"
    /\ IF ex[e].cur \in Names(scratch)
       THEN /\ scratch' = scratch \ {FileNamed(ex[e].cur)}
            /\ ex' = [ex EXCEPT ![e].pc = "sweep", ![e].todo = @ \ {ex[e].cur}]
       ELSE /\ scratch' = scratch
            /\ ex' = Raise(e, MsgSweep, "assembly")
    /\ UNCHANGED <<msg, backend, now, s3, library>>

\* return temporary_file.name, transcript, combined_text
SweepDone(e) ==
    /\ ex[e].pc = "sweep"
    /\ ex[e].todo = {}
    /\ ex' = [ex EXCEPT ![e].pc = "upload"]
    /\ UNCHANGED <<msg, backend, now, scratch, s3, library>>

\* -------------------------------------------------------------------- publish
\* s3_object_key = f"{uuid.uuid4()}.mp3"; upload_to_s3 wraps every failure of
\* client.upload_file, a missing local file among them, in Exception.
Upload(e, ok) ==
    /\ ex[e].pc = "upload"
    /\ IF ok /\ Val(ex[e].tmp) \in Names(scratch)
       THEN /\ s3' = s3 \cup {e}
            /\ ex' = [ex EXCEPT ![e].pc = "presign"]
       ELSE /\ s3' = s3
            /\ ex' = Raise(e, MsgUpload, "upload")
    /\ UNCHANGED <<msg, backend, now, scratch, library>>

\* generate_presigned_url: the URL; None when botocore raises ClientError
\* (printed and swallowed); any other exception propagates.
PresignOutcomes == {"url", "ClientError", "other"}

generate_presigned_url(outcome) == IF outcome = "url" THEN Some("url") ELSE None

Presign(e, outcome) ==
    /\ ex[e].pc = "presign"
    /\ ex' = IF outcome = "other"
             THEN Raise(e, MsgPresign, "presign")
             ELSE [ex EXCEPT ![e].pc = "insert",
                             ![e].presigned_url = generate_presigned_url(outcome),
                             ![e].cause = IF outcome = "url" THEN @ ELSE "presign_none"]
    /\ UNCHANGED <<msg, backend, now, scratch, s3, library>>

\* return {"presigned_url": presigned_url, "transcript": transcript,
\*         "original_text": original_text, "error": None}
SuccessResult(e) ==
    ResultDict(AllKeys, ex[e].presigned_url, Some(ex[e].transcript),
               Some(ex[e].idx), None)

\* insert_supabase_record: the row is inserted, or Exception is raised; after
\* the insert the task returns its result.
Insert(e, ok) ==
    /\ ex[e].pc = "insert"
    /\ IF ok
       THEN /\ library' = library \cup {e}
            /\ ex' = Returning(e, SuccessResult(e), ex[e].cause)
       ELSE /\ library' = library
            /\ ex' = Raise(e, MsgInsert, "insert")
    /\ UNCHANGED <<msg, backend, now, scratch, s3>>

\* ------------------------------------------------------------- status reader
UnknownId == 0
TaskIds == JobIds \cup {UnknownId}

\* AsyncResult(task_id): the stored meta, or PENDING for a key that is not there.
AsyncResult(id) == IF id \in DOMAIN backend THEN backend[id] ELSE NoRecord

\* task_meta = task_result.info if isinstance(task_result.info, dict) else {};
\* info is the stored result: the meta dict of update_state, or what the task
\* returned.  start_time_str = task_meta.get('start_time').
StartTimeOf(r) == IF r.status = NoState THEN r.start_time ELSE None

ElapsedOf(r) == IF IsNone(StartTimeOf(r)) THEN None ELSE Some(now - Val(StartTimeOf(r)))

\* The JSON body GET /task-status/{task_id} answers with.
Response(id, status, keys, result, error, elapsed) ==
    [task_id |-> id, status |-> status, keys |-> keys, result |-> result,
     error |-> error, elapsed_time |-> elapsed]

StatusOf(id) ==
    LET r == AsyncResult(id) IN
    IF r.status = "PENDING"
    THEN Response(id, "Pending", {"task_id", "status", "elapsed_time"},
                  None, None, ElapsedOf(r))
    ELSE IF r.status = "SUCCESS"
    THEN Response(id, "Success", {"task_id", "status", "result", "elapsed_time"},
                  r.result, None, ElapsedOf(r))
    ELSE IF r.status = "FAILURE"
    THEN Response(id, "Failed", {"task_id", "status", "error", "elapsed_time"},
                  None, r.result, ElapsedOf(r))
    ELSE Response(id, r.status, {"task_id", "status", "elapsed_time"},
                  None, None, ElapsedOf(r))

\* A reader that consumes what it reads (task_result.forget()).
get_task_status_forgets(id) ==
    /\ id \in JobIds
    /\ StatusOf(id).task_id = id
    /\ backend' = [backend EXCEPT ![id] = NoRecord]
    /\ UNCHANGED <<msg, now, scratch, s3, library, ex>>

\* The handler only reads: what it answers is StatusOf(task_id), and nothing
\* of the state changes.
get_task_status(id) ==
    /\ StatusOf(id).task_id = id
    /\ UNCHANGED vars

\* The result store drops a finished task's key (result expiry).
Reap(j) ==
    /\ backend[j].status = "SUCCESS"
    /\ backend' = [backend EXCEPT ![j] = NoRecord]
    /\ UNCHANGED <<msg, now, scratch, s3, library, ex>>

\* ------------------------------------------------------------- specification
\* Every step of a run that has begun.  dialogues are the Dialogues the model
\* endpoint may answer with.
Step(e, dialogues) ==
    \/ UpdateStateRead(e)
    \/ UpdateStateWrite(e)
    \/ CheckFiles(e)
    \/ \E present \in BOOLEAN : ApiKey(e, present)
    \/ \E readable \in BOOLEAN : Extract(e, readable)
    \/ PromptAssembly(e)
    \/ \E d \in dialogues : LLMValid(e, d)
    \/ LLMValidationError(e)
    \/ LLMOtherError(e)
    \/ Submit(e)
    \/ \E i \in 1..MaxLines : FutureStart(e, i)
    \/ \E i \in 1..MaxLines, ok \in BOOLEAN : FutureFinish(e, i, ok)
    \/ Collect(e)
    \/ Shutdown(e)
    \/ \E ok \in BOOLEAN : WriteScratch(e, ok)
    \/ Glob(e)
    \/ \E n \in ex[e].todo : SweepCheck(e, n)
    \/ SweepRemove(e)
    \/ SweepDone(e)
    \/ \E ok \in BOOLEAN : Upload(e, ok)
    \/ \E outcome \in PresignOutcomes : Presign(e, outcome)
    \/ \E ok \in BOOLEAN : Insert(e, ok)
    \/ MarkAsDoneRead(e)
    \/ MarkAsDoneWrite(e)

\* The producers and the status reader.  args are the (edited_transcript,
\* user_feedback) pairs apply_async binds.
Client(jobs, args) ==
    \/ \E j \in jobs, n \in 0..MaxDocs : pdf_to_dialogue(j, n)
    \/ \E j \in jobs, n \in 1..MaxDocs, a \in args : apply_async(j, n, a[1], a[2])
    \/ \E id \in TaskIds : get_task_status(id)

Environment ==
    \/ \E j \in JobIds : Reap(j)
    \/ Tick

InFlight == {e \in Execs : ex[e].pc \notin {"idle", "done"}}

\* One job, and a worker that runs one task at a time: a second delivery of
\* the job's message is run after the first run has ended.
Next ==
    \/ Client({1}, ArgDomain \X ArgDomain)
    \/ \E e \in Execs : InFlight = {} /\ Deliver(e, 1)
    \/ \E e \in Execs : Step(e, Dialogues)
    \/ Environment

Spec == Init /\ [][Next]_vars

\* Several jobs and workers that run at the same time, on shorter inputs.
ConcurrentArgs == {<<EMPTY, EMPTY>>}
ConcurrentDialogues == {d \in Dialogues : Len(d) <= 1}

NextConcurrent ==
    \/ Client(JobIds, ConcurrentArgs)
    \/ \E e \in Execs, j \in JobIds : Deliver(e, j)
    \/ \E e \in Execs : Step(e, ConcurrentDialogues)
    \/ Environment

SpecConcurrent == Init /\ [][NextConcurrent]_vars

\* The synthesis stage on its own: one job, delivered once, whose run gets to
\* the speech calls, on dialogues whose texts are spelled out in characters
\* and on a dialogue with one line more than the pool has threads.
Chars == {"a", ":", " ", "\n"}
Texts == UNION {[1..n -> Chars] : n \in 0..MaxText}
WrittenDialogues ==
    {<<>>} \cup {<<[speaker |-> s, text |-> t]>> : s \in Speakers, t \in Texts}
           \cup {<<[speaker |-> "speaker-1", text |-> t1],
                   [speaker |-> "speaker-2", text |-> t2]>> : t1, t2 \in Texts}
FanLines == max_workers + 1
LongDialogue ==
    Lines([i \in 1..FanLines |-> IF i % 2 = 1 THEN "speaker-1" ELSE "speaker-2"])
SynthesisDialogues == WrittenDialogues \cup {LongDialogue}

NextSynthesis ==
    \/ apply_async(1, 1, EMPTY, EMPTY)
    \/ InFlight = {} /\ ex[1].pc = "idle" /\ Deliver(1, 1)
    \/ UpdateStateRead(1)
    \/ UpdateStateWrite(1)
    \/ CheckFiles(1)
    \/ ApiKey(1, TRUE)
    \/ Extract(1, TRUE)
    \/ PromptAssembly(1)
    \/ \E d \in SynthesisDialogues : LLMValid(1, d)
    \/ Submit(1)
    \/ \E i \in 1..FanLines : FutureStart(1, i)
    \/ \E i \in 1..FanLines, ok \in BOOLEAN : FutureFinish(1, i, ok)
    \/ Collect(1)
    \/ Shutdown(1)

SpecSynthesis == Init /\ [][NextSynthesis]_vars

\* tenacity with no stop condition: once the attempts counter of the model
\* has reached its bound, one more ValidationError and one more call leave
\* the run where it is.
LLMValidationErrorSaturated(e) ==
    /\ ex[e].pc = "llm"
    /\ ex[e].attempts + 1 = MaxAttempts
    /\ UNCHANGED vars

\* The steps of run e that the worker and the collaborators' answers make,
\* all but the model answers that end the retry loop: what the model answers
\* is not the worker's to decide.
Worker(e) ==
    /\ Step(e, {})
    /\ ~(ex[e].pc = "llm" /\ ex'[e].pc # "llm")

\* One job on a worker that keeps taking steps, and collaborators whose
\* calls all return.
NextLive ==
    \/ Client({1}, ConcurrentArgs)
    \/ \E e \in Execs : InFlight = {} /\ Deliver(e, 1)
    \/ \E e \in Execs : Step(e, ConcurrentDialogues)
    \/ \E e \in Execs : LLMValidationErrorSaturated(e)
    \/ Environment

SpecLive == Init /\ [][NextLive]_vars /\ \A e \in Execs : WF_vars(Worker(e))

\* --------------------------------------------------------------------- claims
Ended(e) == ex[e].pc = "done"
Result(e) == Val(ex[e].ret)

\* The job of run e has had no other run.
OnlyRun(e) == \A e2 \in Execs : e2 # e => ex[e2].job # Job(e)

\* What a run can end on: the stages of the pipeline that can fail.
EarlyStages == {"api_key", "extract", "prompt", "llm", "synthesis", "assembly"}
PublishStages == {"upload", "presign", "presign_none", "insert"}

\* The failures of the collaborators (environment, extraction, model, speech,
\* scratch directory, object storage, metadata store).
CollaboratorFailures == (EarlyStages \ {"prompt"}) \cup PublishStages

Terminal == {"SUCCESS", "FAILURE"}

\* C1: a job's stored state only moves PENDING -> started -> SUCCESS | FAILURE,
\* and once SUCCESS or FAILURE is stored neither the state nor the stored
\* result changes again (short of the store dropping the key), also when the
\* job's message is delivered more than once.  The started state is taken to
\* be whatever state update_state stores.
C1_TerminalStateSetOnce ==
    [][\A j \in JobIds :
         LET a == backend[j] b == backend'[j] IN
         /\ (a.status = "PENDING" => b.status \in {"PENDING", NoState})
         /\ (a.status = NoState => b.status \in {NoState} \cup Terminal)
         /\ (a.status \in Terminal /\ b # NoRecord => b = a)]_vars

\* C2: whenever a stage of the pipeline fails, the job's stored state is
\* FAILURE and the status reader answers with status Failed and the
\* string-rendered cause; it never answers Success.
C2_StageFailureIsReported ==
    \A e \in Execs :
        (Ended(e) /\ OnlyRun(e) /\ backend[Job(e)] # NoRecord
           /\ ex[e].cause \in EarlyStages \cup PublishStages)
        => /\ backend[Job(e)].status = "FAILURE"
           /\ StatusOf(Job(e)).status = "Failed"
           /\ ~IsNone(StatusOf(Job(e)).error)

\* C3: a run of a job from POST /pdf-to-dialogue/ with at least one document,
\* in which no collaborator failed, ends with a result whose error is None,
\* whose presigned_url is set, and which carries a transcript.
C3_EndpointJobSucceeds ==
    \A e \in Execs :
        (Ended(e) /\ msg[Job(e)].endpoint /\ msg[Job(e)].nfiles > 0
           /\ ex[e].cause \notin CollaboratorFailures)
        => /\ IsNone(Result(e).error)
           /\ ~IsNone(Result(e).presigned_url)
           /\ ~IsNone(Result(e).transcript)

\* What the run has left outside its job record.
NoArtifact(e) == e \notin Names(scratch) /\ e \notin s3 /\ e \notin library

ChunkOf(line) == get_mp3(line.text, Voice(line.speaker))

RECURSIVE ExpectedTranscript(_)
ExpectedTranscript(d) ==
    IF d = <<>> THEN <<>>
    ELSE ExpectedTranscript(SubSeq(d, 1, Len(d) - 1))
           \o TranscriptLine(d[Len(d)]) \o <<"\n", "\n">>

\* C4: whatever the order in which the speech calls end, the audio collected
\* so far is the chunks of the first k lines in dialogue order, the
\* transcript their entries in the same order, and a synthesis stage that
\* ends well has collected one chunk for every line.
C4_ChunksInDialogueOrder ==
    \A e \in Execs :
        ex[e].pc \in {"collect", "shutdown", "write"} =>
            LET d == ex[e].dialogue IN
            /\ Len(ex[e].audio) = ex[e].k
            /\ \A i \in 1..ex[e].k : ex[e].audio[i] = ChunkOf(d[i])
            /\ ex[e].transcript = ExpectedTranscript(SubSeq(d, 1, ex[e].k))
            /\ (ex[e].pc = "write" => ex[e].k = Len(d))

C4_Witness ==
    \E e \in Execs :
        /\ ex[e].pc = "write"
        /\ Len(ex[e].dialogue) = 2
        /\ ex[e].order = <<2, 1>>
        /\ ex[e].dialogue[1].speaker # ex[e].dialogue[2].speaker
        /\ ex[e].audio = <<ChunkOf(ex[e].dialogue[1]), ChunkOf(ex[e].dialogue[2])>>

\* C5: a speech call that fails fails the stage: the run never gets to write
\* the scratch file with a failed future behind it, and a run that ended on a
\* synthesis failure has written no scratch file, uploaded nothing and
\* inserted no row.
C5_SynthesisFailureFailsStage ==
    \A e \in Execs :
        /\ (\E i \in DOMAIN ex[e].fut : ex[e].fut[i].st = "err")
              => ex[e].pc \in {"collect", "shutdown"} /\ NoArtifact(e)
        /\ ex[e].cause = "synthesis"
              => /\ ex[e].pc \in {"mark_as_done", "mark_as_done_set", "done"}
                 /\ NoArtifact(e)
                 /\ Result(e).error = Some(MsgSynth)
                 /\ IsNone(Result(e).transcript)
                 /\ IsNone(Result(e).presigned_url)

C5_Witness ==
    \E e \in Execs :
        /\ Ended(e)
        /\ ex[e].cause = "synthesis"
        /\ NoArtifact(e)
        /\ StatusOf(Job(e)).result = Some(ErrorResult(e, MsgSynth))

\* C6: a model answer that fails validation makes the generator call again
\* with the same prompt; the Dialogue it returns comes from the call after the
\* last failed one, and no validation error reaches the job's result.
C6_ValidationErrorRetried ==
    \A e \in Execs :
        /\ ex[e].pc = "llm" => ex[e].attempts = ex[e].verr /\ ex[e].prompts \subseteq {PromptOf(e)}
        /\ ex[e].pc = "submit" => /\ ex[e].attempts = ex[e].verr + 1
                                  /\ ex[e].prompts = {PromptOf(e)}
                                  /\ IsNone(ex[e].ret)
        /\ ~IsNone(ex[e].ret) => Result(e).error # Some(MsgValidation)

C6_Witness ==
    \E e \in Execs :
        /\ ex[e].pc = "submit"
        /\ ex[e].verr = 2
        /\ ex[e].attempts = 3
        /\ Len(ex[e].dialogue) = MaxLines

\* C7: a model call that fails with anything but a validation error is not
\* called again: calls never outnumber the validation failures by more than
\* one, and the run ends at once with that error in its result, without a
\* speech call, a scratch file, an upload or an insert.
C7_OtherErrorEndsRun ==
    \A e \in Execs :
        /\ ex[e].attempts <= ex[e].verr + 1
        /\ ex[e].cause = "llm"
              => /\ ex[e].attempts = ex[e].verr + 1
                 /\ ex[e].pc \in {"mark_as_done", "mark_as_done_set", "done"}
                 /\ Result(e).error = Some(MsgLLM)
                 /\ IsNone(Result(e).transcript)
                 /\ ex[e].fut = <<>>
                 /\ NoArtifact(e)

C7_Witness ==
    \E e \in Execs :
        /\ Ended(e)
        /\ ex[e].cause = "llm"
        /\ ex[e].verr = 1
        /\ ex[e].attempts = 2
        /\ StatusOf(Job(e)).result = Some(ErrorResult(e, MsgLLM))

\* What a status query reports for the job of run e.
Reported(e) == Val(StatusOf(Job(e)).result)
IsReported(e) == OnlyRun(e) /\ backend[Job(e)].status = "SUCCESS"

C10_FirstActionMovesToStarted ==
    \A e \in Execs :
        (/\ ex[e].pc \notin {"idle", "update_state", "update_state_set", "done"}
         /\ OnlyRun(e)
         /\ backend[Job(e)].status \notin Terminal
         /\ backend[Job(e)] # NoRecord)
        => /\ ~IsNone(backend[Job(e)].start_time)
           /\ StatusOf(Job(e)).status = "STARTED"

\* C11: a status query reports no elapsed time for a PENDING job, and now
\* minus the recorded start time for every job that has started: while it
\* runs and once its result is stored.
C11_ElapsedFromStart ==
    \A j \in JobIds :
        LET r == StatusOf(j) IN
        /\ backend[j].status = "PENDING" => IsNone(r.elapsed_time)
        /\ ~IsNone(backend[j].start_time)
              => r.elapsed_time = Some(now - Val(backend[j].start_time))
        /\ backend[j].status \in Terminal
              => ~IsNone(r.elapsed_time) /\ Val(r.elapsed_time) \in 0..now

\* Jobs the broker has accepted and no worker has begun.
Accepted == {j \in JobIds : msg[j].sent /\ \A e \in Execs : Job(e) # j}

\* Jobs that ran once, to the end, and whose record the store has dropped.
Reaped == {j \in JobIds : /\ backend[j] = NoRecord
                          /\ \E e \in Execs : Job(e) = j /\ Ended(e) /\ OnlyRun(e)}

\* C12: a status query for an id the result store does not know, never
\* submitted or reaped after the job ended, answers with a status that no
\* accepted, not yet started job is reported with.
C12_UnknownIsDistinct ==
    \A j \in Accepted :
        /\ StatusOf(UnknownId).status # StatusOf(j).status
        /\ \A r \in Reaped : StatusOf(r).status # StatusOf(j).status

\* What a status response says of the job's outcome.
Payload(r) == <<r.status, r.result, r.error>>

\* The runs that the broker has handed job j to.
RunsOf(j) == {e \in Execs : Job(e) = j}

EmptyRuns == {e \in Execs : ex[e].pc # "idle" /\ msg[Job(e)].nfiles = 0}

\* C14: a job submitted with an empty file list ends in state FAILURE, and
\* a status query reports it as failed with the no-files message.
C14_EmptyListFails ==
    \A e \in EmptyRuns :
        (Ended(e) /\ OnlyRun(e) /\ backend[Job(e)] # NoRecord)
        => /\ backend[Job(e)].status = "FAILURE"
           /\ StatusOf(Job(e)).status = "Failed"
           /\ StatusOf(Job(e)).error = Some(MsgNoFiles)

\* What a run has done besides storing into its job record.
Untouched(e) ==
    /\ ex[e].pc \in {"update_state", "update_state_set", "check_files",
                     "mark_as_done", "mark_as_done_set", "done"}
    /\ ex[e].idx = 0 /\ ex[e].attempts = 0 /\ ex[e].prompts = {}
    /\ ex[e].fut = <<>> /\ ex[e].audio = <<>> /\ IsNone(ex[e].tmp)
    /\ IsNone(ex[e].presigned_url)
    /\ NoArtifact(e)

\* C15: a run of a job with an empty file list extracts nothing, calls
\* neither the model nor the speech service, writes no scratch file, uploads,
\* mints and inserts nothing: each of its steps leaves the scratch directory,
\* the bucket, the table and the other jobs' records as they were, and what it
\* returns is the no-files error.
C15_EmptyListTouchesNothing ==
    [][\A e \in Execs :
         (ex'[e].pc # "idle" /\ msg'[ex'[e].job].nfiles = 0) =>
            /\ Untouched(e)'
            /\ ~IsNone(ex'[e].ret) => ex'[e].ret = Some(ResultDict({"error"}, None, None, None, Some(MsgNoFiles)))
            /\ ex'[e] # ex[e] =>
                 /\ UNCHANGED <<scratch, s3, library, msg>>
                 /\ \A j \in JobIds : j # ex'[e].job => backend'[j] = backend[j]]_vars

C15_Witness ==
    \E e \in EmptyRuns :
        /\ Ended(e)
        /\ Untouched(e)
        /\ backend[Job(e)].result = ex[e].ret
        /\ Result(e).error = Some(MsgNoFiles)
        /\ scratch # {}

\* The objects uploaded, and the rows inserted, by the runs of job j.
UploadsOf(j) == {e \in s3 : Job(e) = j}
InsertsOf(j) == {e \in library : Job(e) = j}

Occurrences(s, sep) ==
    {p \in 1..(Len(s) - Len(sep) + 1) : SubSeq(s, p, p + Len(sep) - 1) = sep}

FirstOccurrence(s, sep) ==
    CHOOSE p \in Occurrences(s, sep) : \A q \in Occurrences(s, sep) : p <= q

RECURSIVE Split(_, _)
Split(s, sep) ==
    IF Occurrences(s, sep) = {} THEN <<s>>
    ELSE LET p == FirstOccurrence(s, sep) IN
         <<SubSeq(s, 1, p - 1)>> \o Split(SubSeq(s, p + Len(sep), Len(s)), sep)

\* The entries of a transcript: its pieces between blank lines, without the
\* empty piece after the last terminator.
Entries(t) ==
    LET pieces == Split(t, <<"\n", "\n">>) IN
    IF pieces[Len(pieces)] = <<>> THEN SubSeq(pieces, 1, Len(pieces) - 1) ELSE pieces

\* entry.split(": ", 1)
ParseEntry(entry) ==
    IF Occurrences(entry, <<":", " ">>) = {} THEN [speaker |-> <<>>, text |-> entry]
    ELSE LET p == FirstOccurrence(entry, <<":", " ">>) IN
         [speaker |-> SubSeq(entry, 1, p - 1), text |-> SubSeq(entry, p + 2, Len(entry))]

ParseTranscript(t) == [i \in DOMAIN Entries(t) |-> ParseEntry(Entries(t)[i])]

Pairs(d) == [i \in DOMAIN d |-> [speaker |-> <<d[i].speaker>>, text |-> d[i].text]]

\* C17: the transcript a finished synthesis stage has built, split on blank
\* lines and each entry on its first ": ", is the dialogue's sequence of
\* (speaker, text) pairs.
C17_TranscriptRoundTrip ==
    \A e \in Execs :
        ex[e].pc = "write" => ParseTranscript(ex[e].transcript) = Pairs(ex[e].dialogue)

\* C19: in the synthesis stage a speech call that has been submitted and has
\* not begun is never kept waiting by the calls in progress: a thread is free
\* to run it.
C19_NoLineWaitsForAnother ==
    \A e \in Execs :
        (ex[e].pc \in {"collect", "shutdown"} /\ Queued(e) # {})
        => Cardinality(Running(e)) < max_workers

\* C18: whatever edited_transcript and user_feedback are, not supplied, ""
\* or a text, prompt assembly raises nothing, and the prompts the model is
\* called with have the requested-improvements section exactly when one of
\* the two is a text.
C18_PromptAssemblyTotal ==
    \A e \in Execs :
        ex[e].pc # "idle" =>
            /\ ex[e].cause # "prompt"
            /\ \A p \in ex[e].prompts :
                 p.requested_improvements
                    = (msg[Job(e)].et = TEXT \/ msg[Job(e)].uf = TEXT)

\* The steps from one stage of a run to the next.
Forward ==
    {<<"api_key", "extract">>, <<"extract", "prompt">>, <<"prompt", "llm">>,
     <<"llm", "submit">>, <<"submit", "collect">>, <<"collect", "write">>,
     <<"write", "glob">>, <<"glob", "sweep">>, <<"sweep", "remove">>,
     <<"remove", "sweep">>, <<"sweep", "upload">>, <<"upload", "presign">>,
     <<"presign", "insert">>}

\* What must have completed for a run to be where it is.
Completed(e) ==
    /\ ex[e].pc = "write"
          => /\ ex[e].k = Len(ex[e].dialogue)
             /\ \A i \in DOMAIN ex[e].fut : ex[e].fut[i].st = "ok"
    /\ ex[e].pc \in {"glob", "sweep", "remove", "upload", "presign", "insert"}
          => ~IsNone(ex[e].tmp) /\ Pending(e) = {}
    /\ ex[e].pc \in {"presign", "insert"} => e \in s3
    /\ e \in s3 => ex[e].pc \in {"presign", "insert", "mark_as_done", "mark_as_done_set", "done"}
    /\ e \in library => e \in s3 /\ ex[e].pc \in {"mark_as_done", "mark_as_done_set", "done"}

UrlMinted(e) == ex[e].pc = "insert" => ~IsNone(ex[e].presigned_url)

Age(f) == now - f.mtime

\* C21: an assembly call writes its audio to a scratch file no other file
\* shares the name of, and sweeps the directory after that: a file is deleted
\* only by the sweep of a run that has written its own file, and only when it
\* is more than 24 hours old; when the call returns its own file is there and
\* no file is left that was more than 24 hours old when the sweep began.
C21_SweepDeletesStaleOnly ==
    [][/\ \A e \in Execs :
            /\ (ex[e].pc = "write" /\ ex'[e].pc = "glob")
                  => /\ e \notin Names(scratch)
                     /\ scratch' = scratch \cup {[name |-> e, mtime |-> now]}
            /\ ex'[e].pc \in {"glob", "sweep", "remove"}
                  => /\ ex'[e].tmp = Some(e)
                     /\ e \in Names(scratch')
                     /\ msg[ex'[e].job].nfiles > 0
            /\ (ex[e].pc = "sweep" /\ ex'[e].pc = "upload")
                  => /\ e \in Names(scratch')
                     /\ \A f \in scratch' : FileNamed(e).mtime - f.mtime <= StaleAfter
       /\ \A f \in scratch \ scratch' :
            /\ Age(f) > StaleAfter
            /\ \E e \in Execs : /\ ex[e].pc = "remove" /\ ex'[e].pc = "sweep"
                                /\ ex[e].cur = f.name /\ f.name # e]_vars

C21_Witness ==
    \E e \in Execs :
        /\ ex[e].pc = "upload"
        /\ e \in Names(scratch)
        /\ ex[e].cur \in OldNames
        /\ ex[e].cur \notin Names(scratch)



Returned == {"mark_as_done", "mark_as_done_set", "done"}

\* C22: a document that cannot be read ends extraction there and then: the
\* run leaves the loop for the prompt only with every document read, and
\* otherwise returns with the extraction error, having called neither the
\* model nor the speech service, written no scratch file, and uploaded,
\* minted and inserted nothing.
C22_ExtractionFailureEndsRun ==
    [][\A e \in Execs :
         /\ (ex[e].pc = "extract" /\ ex'[e] # ex[e])
               => \/ /\ ex'[e].pc = "extract"
                     /\ ex'[e].idx = ex[e].idx + 1
                     /\ ex'[e].idx <= msg[Job(e)].nfiles
                  \/ ex'[e].pc = "prompt" /\ ex[e].idx = msg[Job(e)].nfiles
                  \/ /\ ex'[e].pc = "mark_as_done"
                     /\ ex'[e].cause = "extract"
                     /\ ex[e].idx < msg[Job(e)].nfiles
         /\ ex'[e].cause = "extract"
               => /\ ex'[e].pc \in Returned
                  /\ ex'[e].ret = Some(ResultDict(AllKeys, None, None, None, Some(MsgExtract)))
                  /\ ex'[e].attempts = 0 /\ ex'[e].prompts = {}
                  /\ ex'[e].fut = <<>> /\ IsNone(ex'[e].tmp)
                  /\ NoArtifact(e)']_vars

C22_Witness ==
    \E e \in Execs :
        /\ Ended(e)
        /\ ex[e].cause = "extract"
        /\ NoArtifact(e)
        /\ StatusOf(Job(e)).result = Some(ErrorResult(e, MsgExtract))


\* C23: two jobs that run at the same time on the one scratch directory do
\* not disturb each other: no run's sweep fails on a file that another job's
\* sweep has deleted, and the file a run has written is there until it is
\* uploaded.
C23_JobsDoNotDisturbEachOther ==
    \A e \in Execs :
        /\ (OnlyRun(e) /\ ~IsNone(ex[e].ret)) => Result(e).error # Some(MsgSweep)
        /\ ex[e].pc \in {"glob", "sweep", "remove", "upload"} => e \in Names(scratch)

InStage == {"collect", "shutdown"}

\* C24: the synthesis stage is left, with the chunks or with a failure, only
\* when no speech call of the run is queued or running; it is left with the
\* chunks only when every call has returned its audio, and the failure of a
\* line is met only when the results of all the lines before it have been
\* collected.
C24_NoCallInFlightAfterStage ==
    [][\A e \in Execs :
         /\ (ex[e].pc \in InStage /\ ex'[e].pc \notin InStage)
               => /\ Pending(e) = {}
                  /\ ex'[e].pc = "write"
                        => /\ ex[e].k = Len(ex[e].fut)
                           /\ \A i \in DOMAIN ex[e].fut : ex[e].fut[i].st = "ok"
                  /\ ex'[e].pc # "write"
                        => /\ ex[e].pc = "shutdown"
                           /\ ex'[e].pc = "mark_as_done"
                           /\ ex'[e].cause = "synthesis"
         /\ ex'[e].pc = "shutdown"
               => /\ ex'[e].k < Len(ex'[e].fut)
                  /\ ex'[e].fut[ex'[e].k + 1].st = "err"
                  /\ Len(ex'[e].audio) = ex'[e].k
                  /\ \A i \in 1..ex'[e].k : ex'[e].fut[i].st = "ok"]_vars

C24_Witness ==
    \E e \in Execs :
        /\ ex[e].pc = "shutdown"
        /\ Pending(e) = {}
        /\ ex[e].k >= 1
        /\ ex[e].k + 1 < Len(ex[e].fut)
        /\ ex[e].fut[ex[e].k + 1].st = "err"
        /\ Len(ex[e].audio) = ex[e].k
        /\ ex[e].order[Len(ex[e].order)] > ex[e].k + 1


\* C25: a run that has begun ends with its result returned and stored, or
\* stays in the retry loop of the model call for ever; a run in that loop
\* has made no speech call and has written, uploaded and inserted nothing.
C25_StartedRunEnds ==
    \A e \in Execs :
        /\ [](ex[e].pc = "llm" => ex[e].fut = <<>> /\ IsNone(ex[e].tmp) /\ NoArtifact(e))
        /\ (ex[e].pc # "idle") ~> (Ended(e) \/ [](ex[e].pc = "llm"))

C25_Witness ==
    \E e \in Execs :
        /\ Ended(e)
        /\ e \in library
        /\ backend[Job(e)].status = "SUCCESS"
        /\ IsNone(Val(backend[Job(e)].result).error)
        /\ ~IsNone(Val(backend[Job(e)].result).transcript)


=============================================================================
